---- MODULE Spec2Model ----
(***************************************************************************)
(* Cartoon Survivor (src/main.py): the obstacle generator, the mob spawner *)
(* and the main loop's frame, as state machines.                           *)
(*                                                                         *)
(* Units.  Lengths are pixels (integers).  Time is in milliseconds, the    *)
(* unit of clock.tick(); the source divides by 1000.0 to get seconds, so a *)
(* rate of r per second applied for dt milliseconds is r*dt thousandths.   *)
(* Hit points are therefore kept in thousandths (player.hp = 100 is        *)
(* 100 * MS), which makes "hp -= 12 * dt" exact.                           *)
(***************************************************************************)
EXTENDS Integers, Sequences, FiniteSets, TLC

VARIABLES
    \* ---- spawn_mob (one call) ----
    sm_pc,        \* "loop" | "done"
    sm_in,        \* the call's arguments: [minute, player_x, player_y, obstacles]
    tries,        \* the local counter of rejected candidates
    sm_fallback,  \* TRUE when the loop was left through a fallback branch
    sm_ret,       \* the returned Mob (NoMob while the loop runs)
    \* ---- generate_obstacles (one call) ----
    go_pc,        \* "grid" | "random" | "post" | "done"
    go_count,     \* the argument count
    obs,          \* the list obs
    go_tries,     \* the local tries of the grid phase
    extra_tries,  \* the local extra_tries of the random phase
    go_accepted,  \* history: obs as the two placement phases left it
    \* ---- main ----
    pc,           \* where main is: "menu", "frame" (top of the game loop), "move",
                  \* "spawn", "mobs", "projectiles", "lava", "attack", "checks", "exit"
    state,        \* 'champ_select' | 'playing' | 'levelup' | 'win' | 'dead'
    running,
    player,
    mobs,
    projectile_list,
    lava_pools,
    obstacles,
    elapsed,      \* ms
    spawn_acc,    \* ms
    dt,           \* ms: clock.tick(FPS) of the current frame
    events,       \* pygame.event.get() of the current frame
    frames,       \* history: the number of frames begun
    prev_state,   \* history: state when the current frame began
    removed_count,\* history: the number of mobs removed from the mob list
    since_attack, \* history: ms of playing frames since the last auto-attack
                  \* (the dt of the attack's frame not counted); -1 before the first
    tick_ms,      \* the values clock.tick(FPS) takes in this run, in ms
    held_keys     \* the (dx, dy) that pygame.key.get_pressed() gives in this run

smVars == <<sm_pc, sm_in, tries, sm_fallback, sm_ret>>
goVars == <<go_pc, go_count, obs, go_tries, extra_tries, go_accepted>>
mainVars == <<pc, state, running, player, mobs, projectile_list, lava_pools, obstacles,
              elapsed, spawn_acc, dt, events, frames, prev_state, removed_count,
              since_attack, tick_ms, held_keys>>
vars == <<smVars, goVars, mainVars>>

-----------------------------------------------------------------------------
(* Config (src/main.py 17-31) *)

WORLD_W == 2400
WORLD_H == 1800
PLAYER_RADIUS == 16
MOB_RADIUS == 14
LAVA_RADIUS == 60
MS == 1000
LEVEL_DURATION_SECONDS == 10 * 60
OBSTACLE_COUNT == 80
NEAR_RADIUS == 120
MAX_NEARBY_OBSTACLES == 2
GRID_BIAS == 200
OBSTACLE_SAFETY_MARGIN == 8

ENEMY_TYPES == <<"melee", "shooter", "lava">>

-----------------------------------------------------------------------------
(* Helpers *)

Max(a, b) == IF a >= b THEN a ELSE b
Min(a, b) == IF a <= b THEN a ELSE b

\* Lines 120-121.
clamp(v, a, b) == Max(a, Min(b, v))

\* math.hypot(ax - bx, ay - by) squared.  Every use of distance() in the source
\* compares it with a bound d >= 0, and hypot < d iff hypot^2 < d^2, so the
\* comparisons are made on squares and stay exact on integers.
distance_sq(ax, ay, bx, by) == (ax - bx) * (ax - bx) + (ay - by) * (ay - by)

distance_lt(ax, ay, bx, by, d) == distance_sq(ax, ay, bx, by) < d * d
distance_le(ax, ay, bx, by, d) == distance_sq(ax, ay, bx, by) <= d * d

\* pygame.Rect as [x, y, w, h]; left = x, right = x + w, top = y, bottom = y + h.
Rect(x, y, w, h) == [x |-> x, y |-> y, w |-> w, h |-> h]
left(r) == r.x
right(r) == r.x + r.w
top(r) == r.y
bottom(r) == r.y + r.h
centerx(r) == r.x + (r.w \div 2)
centery(r) == r.y + (r.h \div 2)

\* Rect.inflate(dx, dy): grows the rectangle around its centre.
inflate(r, dx, dy) == Rect(r.x - (dx \div 2), r.y - (dy \div 2), r.w + dx, r.h + dy)

\* Rect.collidepoint: the right and bottom edges are outside.
collidepoint(r, x, y) ==
    /\ left(r) <= x /\ x < right(r)
    /\ top(r) <= y /\ y < bottom(r)

\* Rect.colliderect: rectangles that only touch do not collide.
colliderect(a, b) ==
    /\ left(a) < right(b) /\ left(b) < right(a)
    /\ top(a) < bottom(b) /\ top(b) < bottom(a)

circle_rect_collision(cx, cy, r, rect) ==
    LET closest_x == clamp(cx, left(rect), right(rect))
        closest_y == clamp(cy, top(rect), bottom(rect))
    IN  distance_le(cx, cy, closest_x, closest_y, r)

Obstacle(rect, kind) == [rect |-> rect, kind |-> kind]

\* The elements of a sequence, as a set.
Range(s) == {s[i] : i \in DOMAIN s}

-----------------------------------------------------------------------------
(* spawn_mob (src/main.py 136-187) *)

NoMob == [type |-> "none"]

Mob(x, y, hp, speed, t, cooldown) ==
    [x |-> x, y |-> y, hp |-> hp, speed |-> speed, type |-> t, cooldown |-> cooldown]

\* random.randint(0, WORLD_W // GRID_BIAS), random.randint(0, WORLD_H // GRID_BIAS)
\* and random.uniform(-GRID_BIAS/2, GRID_BIAS/2): values inside each range.
GridXs == {0, (WORLD_W \div GRID_BIAS) \div 2}
GridYs == {(WORLD_H \div GRID_BIAS) \div 2, WORLD_H \div GRID_BIAS}
Jitters == {-(GRID_BIAS \div 2), GRID_BIAS \div 2}

\* random.uniform(0, WORLD_W), random.uniform(0, WORLD_H) of the fallbacks.
UniformXs == {0, WORLD_W \div 2}
UniformYs == {40, WORLD_H \div 2}

\* The grid-biased sample of one loop iteration, clamped (lines 145-150).
SampleX(gx, jx) == clamp(gx * GRID_BIAS + jx, 0, WORLD_W)
SampleY(gy, jy) == clamp(gy * GRID_BIAS + jy, 0, WORLD_H)

\* Line 153: the candidate is too near the player.
TooNear(x, y, player_x, player_y) == distance_lt(x, y, player_x, player_y, 300)

\* Lines 163-168: the candidate is inside an obstacle grown by the margin.
InsideObs_NoMargin(x, y, obs_arg) ==
    \E i \in DOMAIN obs_arg :
        collidepoint(obs_arg[i].rect, x, y)

InsideObs(x, y, obs_arg) ==
    \E i \in DOMAIN obs_arg :
        collidepoint(inflate(obs_arg[i].rect, OBSTACLE_SAFETY_MARGIN * 2,
                             OBSTACLE_SAFETY_MARGIN * 2), x, y)

\* Lines 181-186: type, hp, speed and cooldown of the new mob.  One roll fixes
\* the four random terms: <<type, hp jitter, speed jitter, cooldown in ms>>.
MobTypes == Range(ENEMY_TYPES)
MobRolls == {<<"melee", -4, 8, 2200>>, <<"shooter", 6, 8, 800>>, <<"lava", 6, -8, 800>>}

NewMob(minute, x, y, roll) ==
    Mob(x, y, (22 + minute * 15 + roll[2]) * MS, 55 + minute * 8 + roll[3], roll[1], roll[4])

\* Lines 154-155 and 170-171: the rejection counter after one more rejection.
BumpTries_Stuck(t) == t

BumpTries(t) == t + 1

\* One iteration of the "while True" loop: sample, the two rejections with their
\* fallbacks, or acceptance; on leaving the loop, lines 181-187 build the Mob.
SpawnIter ==
    /\ sm_pc = "loop"
    /\ \E gx \in GridXs, gy \in GridYs, jx \in Jitters, jy \in Jitters,
          ux \in UniformXs, uy \in UniformYs, roll \in MobRolls :
        LET x == SampleX(gx, jx)
            y == SampleY(gy, jy)
            near == TooNear(x, y, sm_in.player_x, sm_in.player_y)
            inside_obs == InsideObs(x, y, sm_in.obstacles)
            limit == IF near THEN 300 ELSE 500
        IN  IF near \/ inside_obs
            THEN /\ tries' = BumpTries(tries)
                 /\ IF tries' > limit
                    THEN /\ sm_pc' = "done"
                         /\ sm_fallback' = TRUE
                         /\ sm_ret' = NewMob(sm_in.minute, ux, uy, roll)
                    ELSE UNCHANGED <<sm_pc, sm_fallback, sm_ret>>
            ELSE /\ sm_pc' = "done"
                 /\ sm_ret' = NewMob(sm_in.minute, x, y, roll)
                 /\ UNCHANGED <<tries, sm_fallback>>
    /\ UNCHANGED sm_in
    /\ UNCHANGED <<goVars, mainVars>>

\* The arguments of the modelled calls: a late minute, the player at
\* the world centre or at the left edge, and three obstacle lists: none, two ordinary
\* obstacles, and one that covers the whole world (every candidate is rejected).
SpawnMinutes == {9}
SpawnPlayers == {<<WORLD_W \div 2, WORLD_H \div 2>>, <<0, 800>>}
TwoObstacles ==
    <<Obstacle(Rect(105, 705, 50, 50), "rock"), Obstacle(Rect(1250, 1650, 100, 100), "tree")>>
CoverObstacles == <<Obstacle(Rect(0, 0, WORLD_W, WORLD_H), "water")>>
SpawnObstacleLists == {<<>>, TwoObstacles, CoverObstacles}

\* The variables of spawn_mob while no call is modelled.
IdleSpawn ==
    /\ sm_pc = "idle" /\ tries = 0 /\ sm_fallback = FALSE /\ sm_ret = NoMob
    /\ sm_in = [minute |-> 0, player_x |-> 0, player_y |-> 0, obstacles |-> <<>>]

\* The variables of generate_obstacles while no call is modelled.
IdleGen ==
    /\ go_pc = "idle" /\ go_count = 0 /\ obs = <<>> /\ go_tries = 0
    /\ extra_tries = 0 /\ go_accepted = <<>>

\* The variables of main while no run of it is modelled.
IdleMain ==
    /\ pc = "idle" /\ state = "none" /\ running = FALSE /\ player = [hp |-> 0]
    /\ mobs = <<>> /\ projectile_list = <<>> /\ lava_pools = <<>> /\ obstacles = <<>>
    /\ elapsed = 0 /\ spawn_acc = 0 /\ dt = 0 /\ events = <<>> /\ frames = 0
    /\ prev_state = "none" /\ removed_count = 0
    /\ since_attack = -1 /\ tick_ms = {} /\ held_keys = {}

InitSpawn ==
    /\ IdleGen
    /\ IdleMain
    /\ sm_pc = "loop"
    /\ tries = 0
    /\ sm_fallback = FALSE
    /\ sm_ret = NoMob
    /\ \E m \in SpawnMinutes, p \in SpawnPlayers, o \in SpawnObstacleLists :
        sm_in = [minute |-> m, player_x |-> p[1], player_y |-> p[2], obstacles |-> o]

NextSpawn == SpawnIter

\* The loop body always runs to its end, so a step that is possible is taken.
SpecSpawn == InitSpawn /\ [][NextSpawn]_vars /\ WF_vars(NextSpawn)

-----------------------------------------------------------------------------
(* Properties of spawn_mob *)

\* C8: a call that returns without a fallback returns a position at distance
\* >= 300 from the player that is inside no obstacle grown by the safety margin.
C8_SafeSpawn ==
    (sm_pc = "done" /\ ~sm_fallback) =>
        /\ ~distance_lt(sm_ret.x, sm_ret.y, sm_in.player_x, sm_in.player_y, 300)
        /\ \A i \in DOMAIN sm_in.obstacles :
              LET g == sm_in.obstacles[i].rect
                  m == OBSTACLE_SAFETY_MARGIN
              IN  ~(/\ g.x - m <= sm_ret.x /\ sm_ret.x < g.x + g.w + m
                    /\ g.y - m <= sm_ret.y /\ sm_ret.y < g.y + g.h + m)

\* C8 witness: a call with obstacles present that rejected candidates and then
\* accepted one without a fallback.
C8_Witness ==
    /\ sm_pc = "done" /\ ~sm_fallback /\ tries > 1
    /\ sm_in.obstacles = TwoObstacles

\* C9: the loop leaves after at most 501 rejections, every iteration that stays
\* in the loop counts one more rejection, and the call returns a mob.
C9_Terminates ==
    /\ [](tries <= 501)
    /\ [][sm_pc = "loop" /\ sm_pc' = "loop" => tries' = tries + 1]_vars
    /\ [](sm_pc = "done" => sm_ret.type \in MobTypes)
    /\ <>(sm_pc = "done")

\* C9 witness: a call that returned through a fallback after 501 rejections,
\* with an obstacle list that rejects every candidate.
C9_Witness ==
    /\ sm_pc = "done" /\ sm_fallback /\ tries = 501
    /\ sm_in.obstacles = CoverObstacles

-----------------------------------------------------------------------------
(* generate_obstacles (src/main.py 190-317) *)

\* Line 214.
center_area == Rect(WORLD_W \div 2 - 400, WORLD_H \div 2 - 300, 800, 600)

\* Lines 232-236 and 262: the candidate, grown by the margin, meets an obstacle.
Overlapped_NoMargin(rect, ob_list) ==
    \E i \in DOMAIN ob_list : colliderect(rect, ob_list[i].rect)

Overlapped(rect, ob_list) ==
    \E i \in DOMAIN ob_list :
        colliderect(inflate(rect, OBSTACLE_SAFETY_MARGIN * 2, OBSTACLE_SAFETY_MARGIN * 2),
                    ob_list[i].rect)

\* Lines 243 and 278-279: two rectangles' centres are nearer than NEAR_RADIUS.
Near(a, b) ==
    distance_lt(centerx(a), centery(a), centerx(b), centery(b), NEAR_RADIUS)

\* Lines 241-246 and 265: the number of accepted obstacles near the candidate.
\* (The grid phase stops counting at MAX_NEARBY_OBSTACLES; only the comparison
\* with MAX_NEARBY_OBSTACLES is used, and it is the same for both counts.)
Nearby(rect, ob_list) ==
    Cardinality({i \in DOMAIN ob_list : Near(ob_list[i].rect, rect)})

\* Lines 227-248 and 260-267: the three checks of a candidate, in order.
Rejected_NearbyGt(rect, ob_list) ==
    \/ colliderect(rect, center_area)
    \/ Overlapped(rect, ob_list)
    \/ Nearby(rect, ob_list) > MAX_NEARBY_OBSTACLES

Rejected(rect, ob_list) ==
    \/ colliderect(rect, center_area)
    \/ Overlapped(rect, ob_list)
    \/ Nearby(rect, ob_list) >= MAX_NEARBY_OBSTACLES

\* Lines 273-282: adj[k] lists k's neighbours; the two nested loops append them
\* in increasing index order.
RECURSIVE AscendingFrom(_, _, _)
AscendingFrom(S, k, n) ==
    IF k > n THEN <<>>
    ELSE (IF k \in S THEN <<k>> ELSE <<>>) \o AscendingFrom(S, k + 1, n)

build_adj_list(ob_list) ==
    [k \in DOMAIN ob_list |->
        AscendingFrom({j \in DOMAIN ob_list : j # k /\ Near(ob_list[k].rect, ob_list[j].rect)},
                      1, Len(ob_list))]

\* Lines 295-298: push the unvisited neighbours of u, marking them visited.
RECURSIVE PushNeighbours(_, _, _, _)
PushNeighbours(nbrs, i, stack, visited) ==
    IF i > Len(nbrs) THEN [stack |-> stack, visited |-> visited]
    ELSE IF nbrs[i] \in visited
         THEN PushNeighbours(nbrs, i + 1, stack, visited)
         ELSE PushNeighbours(nbrs, i + 1, Append(stack, nbrs[i]), visited \cup {nbrs[i]})

\* Lines 292-298: the "while stack" loop; comp is in the order of the pops.
RECURSIVE Visit(_, _, _, _)
Visit(adj, stack, visited, comp) ==
    IF stack = <<>> THEN [comp |-> comp, visited |-> visited]
    ELSE LET u == stack[Len(stack)]
             p == PushNeighbours(adj[u], 1, SubSeq(stack, 1, Len(stack) - 1), visited)
         IN  Visit(adj, p.stack, p.visited, Append(comp, u))

\* Lines 284-300.
RECURSIVE ComponentsFrom(_, _, _, _)
ComponentsFrom(adj, i, visited, comps) ==
    IF i > Len(adj) THEN comps
    ELSE IF i \in visited THEN ComponentsFrom(adj, i + 1, visited, comps)
    ELSE LET v == Visit(adj, <<i>>, visited \cup {i}, <<>>)
         IN  ComponentsFrom(adj, i + 1, v.visited, Append(comps, v.comp))

connected_components(adj) ==
    IF Len(adj) = 0 THEN <<>> ELSE ComponentsFrom(adj, 1, {}, <<>>)

\* Line 309: sorted(comp, key=degree, reverse=True).  The sort is stable:
\* members of equal degree keep their order in comp.
RECURSIVE InsertByDegree(_, _, _)
InsertByDegree(sorted, idx, adj) ==
    IF sorted = <<>> THEN <<idx>>
    ELSE IF Len(adj[Head(sorted)]) >= Len(adj[idx])
         THEN <<Head(sorted)>> \o InsertByDegree(Tail(sorted), idx, adj)
         ELSE <<idx>> \o sorted

RECURSIVE SortByDegree(_, _, _)
SortByDegree(comp, n, adj) ==
    IF n = 0 THEN <<>>
    ELSE InsertByDegree(SortByDegree(comp, n - 1, adj), comp[n], adj)

\* Line 310.
remove_needed_KeepOneMore(comp) == Len(comp) - MAX_NEARBY_OBSTACLES - 1

remove_needed(comp) == Len(comp) - MAX_NEARBY_OBSTACLES

\* Lines 305-312: the indices to remove.
to_remove_indices(ob_list) ==
    LET adj == build_adj_list(ob_list)
        comps == connected_components(adj)
    IN  UNION { IF Len(comps[c]) > MAX_NEARBY_OBSTACLES
                THEN LET comp_sorted == SortByDegree(comps[c], Len(comps[c]), adj)
                     IN  {comp_sorted[r] : r \in 1..Max(0, remove_needed(comps[c]))}
                ELSE {} : c \in DOMAIN comps }

\* Lines 314-315.
RECURSIVE KeepOthers(_, _, _)
KeepOthers(ob_list, idx, removed) ==
    IF idx > Len(ob_list) THEN <<>>
    ELSE (IF idx \in removed THEN <<>> ELSE <<ob_list[idx]>>)
         \o KeepOthers(ob_list, idx + 1, removed)

PostProcess(ob_list) == KeepOthers(ob_list, 1, to_remove_indices(ob_list))

\* The candidates of the modelled calls: <<rect, kind>>, with rect =
\* pygame.Rect(x, y, w, h) after the clamps of lines 222-223 or the draws of
\* lines 255-258 and kind = random.choice(kinds).  A row of small obstacles whose
\* centres are 60 apart, one below the row, one just inside the safety margin of
\* the row's last, one in the spawn area and one far away.
CandidateSamples ==
    { <<Rect(0, 0, 40, 40), "tree">>, <<Rect(60, 0, 40, 40), "rock">>,
      <<Rect(120, 0, 40, 40), "house">>, <<Rect(180, 0, 40, 40), "water">>,
      <<Rect(60, 60, 40, 40), "hay">>, <<Rect(227, 0, 40, 40), "tree">>,
      <<Rect(1000, 700, 100, 100), "rock">>, <<Rect(2260, 1680, 140, 120), "house">> }

\* len(candidates): one candidate per grid cell (lines 203-209).
NumCandidates == Max(4, WORLD_W \div GRID_BIAS) * Max(4, WORLD_H \div GRID_BIAS)

\* Lines 216-250: one iteration of the grid phase's for loop.
GridStep ==
    /\ go_pc = "grid"
    /\ go_tries < NumCandidates
    /\ ~(Len(obs) >= go_count \/ go_tries >= NumCandidates * 6)
    /\ go_tries' = go_tries + 1
    /\ \E cand \in CandidateSamples :
        IF Rejected(cand[1], obs)
        THEN obs' = obs
        ELSE obs' = Append(obs, Obstacle(cand[1], cand[2]))
    /\ UNCHANGED <<go_pc, go_count, extra_tries, go_accepted>>
    /\ UNCHANGED <<smVars, mainVars>>

\* Lines 216-218: the for loop ends (candidates used up, or the break).
GridEnd ==
    /\ go_pc = "grid"
    /\ \/ go_tries >= NumCandidates
       \/ Len(obs) >= go_count
       \/ go_tries >= NumCandidates * 6
    /\ go_pc' = "random"
    /\ UNCHANGED <<go_count, obs, go_tries, extra_tries, go_accepted>>
    /\ UNCHANGED <<smVars, mainVars>>

\* Lines 254-269: one iteration of the random phase's while loop.
RandomStep ==
    /\ go_pc = "random"
    /\ Len(obs) < go_count /\ extra_tries < go_count * 12
    /\ extra_tries' = extra_tries + 1
    /\ \E cand \in CandidateSamples :
        IF Rejected(cand[1], obs)
        THEN obs' = obs
        ELSE obs' = Append(obs, Obstacle(cand[1], cand[2]))
    /\ UNCHANGED <<go_pc, go_count, go_tries, go_accepted>>
    /\ UNCHANGED <<smVars, mainVars>>

\* Line 254: the while loop ends.
RandomEnd ==
    /\ go_pc = "random"
    /\ ~(Len(obs) < go_count /\ extra_tries < go_count * 12)
    /\ go_pc' = "post"
    /\ go_accepted' = obs
    /\ UNCHANGED <<go_count, obs, go_tries, extra_tries>>
    /\ UNCHANGED <<smVars, mainVars>>

\* Lines 302-317: the post-process, and the return of obs.
PostProcessStep ==
    /\ go_pc = "post"
    /\ obs' = PostProcess(obs)
    /\ go_pc' = "done"
    /\ UNCHANGED <<go_count, go_tries, extra_tries, go_accepted>>
    /\ UNCHANGED <<smVars, mainVars>>

\* The largest count of the modelled calls.
MaxCount == 3

InitGen ==
    /\ IdleSpawn
    /\ IdleMain
    /\ go_pc = "grid"
    /\ go_count \in 1..MaxCount
    /\ obs = <<>>
    /\ go_tries = 0
    /\ extra_tries = 0
    /\ go_accepted = <<>>

NextGen == GridStep \/ GridEnd \/ RandomStep \/ RandomEnd \/ PostProcessStep

SpecGen == InitGen /\ [][NextGen]_vars

-----------------------------------------------------------------------------
(* Properties of generate_obstacles *)

\* The members of ob_list that a path of Near steps inside ob_list joins to i.
RECURSIVE Reach(_, _)
Reach(ob_list, S) ==
    LET T == S \cup {j \in DOMAIN ob_list : \E k \in S : Near(ob_list[k].rect, ob_list[j].rect)}
    IN  IF T = S THEN S ELSE Reach(ob_list, T)

\* The size of the largest connected component of ob_list under Near.
LargestCluster(ob_list) ==
    LET sizes == {Cardinality(Reach(ob_list, {i})) : i \in DOMAIN ob_list}
    IN  IF sizes = {} THEN 0 ELSE CHOOSE m \in sizes : \A n \in sizes : n <= m

\* C1: in the returned list, every connected component under "centres nearer
\* than NEAR_RADIUS" has at most MAX_NEARBY_OBSTACLES members.
C1_ClusterLimit ==
    go_pc = "done" => LargestCluster(obs) <= MAX_NEARBY_OBSTACLES

\* C1 witness: the placement phases accepted a cluster of more than
\* MAX_NEARBY_OBSTACLES obstacles, and the call returned after pruning it.
C1_Witness ==
    /\ go_pc = "done"
    /\ LargestCluster(go_accepted) > MAX_NEARBY_OBSTACLES
    /\ Len(obs) < Len(go_accepted)

\* The gap between two rectangles is at least m on one axis: a grown by m on
\* every side does not intersect b.
Apart(a, b, m) ==
    \/ a.x + a.w + m <= b.x
    \/ b.x + b.w + m <= a.x
    \/ a.y + a.h + m <= b.y
    \/ b.y + b.h + m <= a.y

\* C11: any two distinct obstacles of the list, during placement and in the
\* returned list after the pruning, are separated by a gap of at least
\* OBSTACLE_SAFETY_MARGIN.
C11_Separated ==
    \A i, j \in DOMAIN obs :
        i # j => Apart(obs[i].rect, obs[j].rect, OBSTACLE_SAFETY_MARGIN)

\* The call returned, after rejecting at least one candidate, a list with two
\* obstacles whose gap is less than three margins on both axes.
C11_Witness ==
    /\ go_pc = "done"
    /\ go_tries + extra_tries > Len(go_accepted)
    /\ \E i, j \in DOMAIN obs :
        /\ i # j
        /\ ~Apart(obs[i].rect, obs[j].rect, 3 * OBSTACLE_SAFETY_MARGIN)

\* The centres of two rectangles are nearer than NEAR_RADIUS.
CentreNear(a, b) ==
    LET ddx == (a.x + a.w \div 2) - (b.x + b.w \div 2)
        ddy == (a.y + a.h \div 2) - (b.y + b.h \div 2)
    IN  ddx * ddx + ddy * ddy < NEAR_RADIUS * NEAR_RADIUS

\* A placement step accepted a candidate: it is the last of the longer list.
Accepts == go_pc \in {"grid", "random"} /\ Len(obs') = Len(obs) + 1

\* C13 as stated: a candidate is accepted only if the cluster it joins,
\* counting the candidate, has fewer than MAX_NEARBY_OBSTACLES members.
C13_ClusterAtPlacement ==
    [][Accepts =>
        Cardinality(Reach(obs', {Len(obs')})) < MAX_NEARBY_OBSTACLES]_vars

\* C13 amended: a candidate is accepted only if fewer than
\* MAX_NEARBY_OBSTACLES of the obstacles accepted before it have their centre
\* nearer than NEAR_RADIUS to its centre (its direct neighbours, not its
\* cluster, and not counting itself), and the list otherwise stays as it was.
C13_DirectNeighbours ==
    [][Accepts =>
        /\ Cardinality({i \in DOMAIN obs : CentreNear(obs[i].rect, obs'[Len(obs')].rect)})
             < MAX_NEARBY_OBSTACLES
        /\ \A i \in DOMAIN obs : obs'[i] = obs[i]]_vars

\* A candidate with one direct neighbour was accepted into a cluster of three.
C13_Witness ==
    /\ go_pc \in {"grid", "random"}
    /\ Len(obs) = 3
    /\ Cardinality({i \in 1..2 : CentreNear(obs[i].rect, obs[3].rect)}) = 1
    /\ Cardinality(Reach(obs, {3})) = 3


-----------------------------------------------------------------------------
(* main (src/main.py 321-780): the data *)

\* Champion presets (lines 34-62); cooldown in ms.
CHAMPIONS ==
    [ mage   |-> [attack_type |-> "projectile", proj_speed |-> 420, proj_dmg |-> 28,
                  cooldown |-> 700, range |-> 520],
      rogue  |-> [attack_type |-> "projectile", proj_speed |-> 650, proj_dmg |-> 14,
                  cooldown |-> 350, range |-> 620],
      knight |-> [attack_type |-> "melee", proj_speed |-> 0, proj_dmg |-> 36,
                  cooldown |-> 500, range |-> 56] ]

\* Player(x, y) with the dataclass defaults (lines 102-116).
Player(x, y) ==
    [x |-> x, y |-> y, hp |-> 100 * MS, level |-> 1, xp |-> 0, speed |-> 250,
     attack_cooldown |-> 500, attack_timer |-> 0, champion |-> "mage",
     proj_speed |-> 420, proj_dmg |-> 20, attack_range |-> 520,
     attack_type |-> "projectile"]

\* Projectile (lines 73-82); ttl in ms, vx and vy in pixels per second.
Projectile(x, y, vx, vy, speed, dmg, owner) ==
    [x |-> x, y |-> y, vx |-> vx, vy |-> vy, speed |-> speed, dmg |-> dmg,
     owner |-> owner, ttl |-> 6 * MS]

\* LavaPool (lines 84-90); duration and tick in ms.
LavaPool(x, y, radius, duration) ==
    [x |-> x, y |-> y, radius |-> radius, duration |-> duration, tick |-> 0]

\* Lines 396-405.
choose_champion(p, key) ==
    [p EXCEPT !.champion = key,
              !.attack_cooldown = CHAMPIONS[key].cooldown,
              !.proj_speed = CHAMPIONS[key].proj_speed,
              !.proj_dmg = CHAMPIONS[key].proj_dmg,
              !.attack_range = CHAMPIONS[key].range,
              !.attack_type = CHAMPIONS[key].attack_type]

\* a / b rounded to the nearest integer (b > 0): the model's positions are the
\* source's floats rounded to whole pixels.
Round(a, b) == IF a >= 0 THEN (a + b \div 2) \div b ELSE -((b \div 2 - a) \div b)

\* The integer square root (floor), by bisection.
RECURSIVE SqrtBetween(_, _, _)
SqrtBetween(n, lo, hi) ==
    IF lo >= hi THEN lo
    ELSE LET mid == (lo + hi + 1) \div 2
         IN  IF mid * mid <= n THEN SqrtBetween(n, mid, hi) ELSE SqrtBetween(n, lo, mid - 1)

ISqrt(n) == SqrtBetween(n, 0, 40000)

\* math.hypot(vx, vy) in tenths of a pixel.
hypot10(vx, vy) == ISqrt(100 * (vx * vx + vy * vy))

\* (vx, vy) / (hypot(vx, vy) or 1.0), in thousandths (lines 443-444, 475-476,
\* 513-514, 645-646).
Unit(vx, vy) ==
    LET d == hypot10(vx, vy)
        dist == IF d = 0 THEN 10 ELSE d
    IN  <<Round(vx * 10 * MS, dist), Round(vy * 10 * MS, dist)>>

\* The displacement, in pixels, of dt ms at `speed` pixels per second along a
\* direction component u given in thousandths.
Step(u, speed, dt_ms) == Round(u * speed * dt_ms, MS * MS)

\* The unit vector (ux, uy), in thousandths, turned by the angle whose cosine and
\* sine, in thousandths, are ca and sa (lines 494-496, 530-532).
Turn(u, ca, sa) ==
    <<Round(u[1] * ca - u[2] * sa, MS), Round(u[1] * sa + u[2] * ca, MS)>>

-----------------------------------------------------------------------------
(* main: start-up and the champion menu (lines 332-407) *)

\* The obstacle list generate_obstacles returned to main: one obstacle on the
\* left world edge and one below and right of the spawn area.
MainObstacles ==
    <<Obstacle(Rect(0, 860, 40, 80), "tree"), Obstacle(Rect(1530, 1230, 60, 60), "rock")>>

\* Lines 332-346.
InitFresh ==
    /\ pc = "menu"
    /\ state = "champ_select"
    /\ running = TRUE
    /\ player = Player(WORLD_W \div 2, WORLD_H \div 2)
    /\ mobs = <<>> /\ projectile_list = <<>> /\ lava_pools = <<>>
    /\ obstacles = MainObstacles
    /\ elapsed = 0 /\ spawn_acc = 0 /\ dt = 0 /\ events = <<>>
    /\ frames = 0 /\ prev_state = "champ_select" /\ removed_count = 0
    /\ since_attack = -1

\* A game in progress, at the top of a frame: 9 min 58.5 s played as a mage or
\* a knight, the player near the left edge of the world, four mobs killed and
\* removed, 80 hit points lost.  A fifth mob, a melee mob next to the player,
\* lost its last hit points to the attack that ended the previous frame and is
\* still in the list.
InitResumed ==
    /\ pc = "frame"
    /\ state = "playing"
    /\ running = TRUE
    /\ \E key \in {"mage", "knight"} :
        /\ player = [choose_champion(Player(200, WORLD_H \div 2), key)
                       EXCEPT !.hp = 20 * MS, !.xp = 4,
                              !.attack_timer = CHAMPIONS[key].cooldown]
        /\ mobs = <<Mob(220, 900, (28 - CHAMPIONS[key].proj_dmg) * MS, 63, "melee", 0)>>
    /\ projectile_list = <<>> /\ lava_pools = <<>>
    /\ obstacles = MainObstacles
    /\ elapsed = 598500 /\ spawn_acc = 0 /\ dt = 0 /\ events = <<>>
    /\ frames = 0 /\ prev_state = "playing" /\ removed_count = 4
    /\ since_attack = 0

\* Lines 355-376: a key 1/2/3 or a click chooses the champion and leaves the menu.
ChampionMenu ==
    /\ pc = "menu"
    /\ state = "champ_select"
    /\ \E key \in DOMAIN CHAMPIONS :
        player' = choose_champion(player, key)
    /\ state' = "playing"
    /\ prev_state' = "playing"
    /\ pc' = "frame"
    /\ UNCHANGED <<running, mobs, projectile_list, lava_pools, obstacles, elapsed,
                   spawn_acc, dt, events, frames, removed_count>>
    /\ UNCHANGED <<smVars, goVars, since_attack, tick_ms, held_keys>>

-----------------------------------------------------------------------------
(* main: the game loop, top of a frame (lines 411-437) *)

QUIT == [type |-> "QUIT", key |-> "none"]
KEYDOWN(key) == [type |-> "KEYDOWN", key |-> key]

BonusKeys == {"K_1", "K_2", "K_3"}

\* Lines 422-435: one KEYDOWN of a bonus key while state = 'levelup'.
bonus_LevelAgain(p, key) ==
    IF key = "K_1"
    THEN [p EXCEPT !.proj_dmg = @ + 8 + p.level * 2, !.attack_range = @ + 10,
                   !.level = @ + 1]
    ELSE IF key = "K_2"
    THEN [p EXCEPT !.speed = @ + 40, !.level = @ + 1]
    ELSE [p EXCEPT !.hp = @ + 40 * MS, !.level = @ + 1]

bonus(p, key) ==
    IF key = "K_1"
    THEN [p EXCEPT !.proj_dmg = @ + 8 + p.level * 2, !.attack_range = @ + 10]
    ELSE IF key = "K_2"
    THEN [p EXCEPT !.speed = @ + 40]
    ELSE [p EXCEPT !.hp = @ + 40 * MS]

\* Lines 416-435: the body of the event loop for one event, on
\* w = [state, running, player].
handle_event_AnyState(w, ev) ==
    LET quit == ev.type = "QUIT" \/ (ev.type = "KEYDOWN" /\ ev.key = "K_ESCAPE")
        w1 == IF quit THEN [w EXCEPT !.running = FALSE] ELSE w
    IN  IF ev.type = "KEYDOWN" /\ ev.key \in BonusKeys
        THEN [w1 EXCEPT !.player = bonus(w1.player, ev.key), !.state = "playing"]
        ELSE w1

handle_event(w, ev) ==
    LET quit == ev.type = "QUIT" \/ (ev.type = "KEYDOWN" /\ ev.key = "K_ESCAPE")
        w1 == IF quit THEN [w EXCEPT !.running = FALSE] ELSE w
    IN  IF ev.type = "KEYDOWN" /\ w1.state = "levelup" /\ ev.key \in BonusKeys
        THEN [w1 EXCEPT !.player = bonus(w1.player, ev.key), !.state = "playing"]
        ELSE w1

RECURSIVE handle_events(_, _)
handle_events(w, evs) ==
    IF evs = <<>> THEN w ELSE handle_events(handle_event(w, Head(evs)), Tail(evs))

\* pygame.event.get(): the event lists of the modelled frames.
EventLists ==
    { <<>>, <<KEYDOWN("K_1")>>, <<KEYDOWN("K_2")>>, <<KEYDOWN("K_3")>>,
      <<KEYDOWN("K_3"), KEYDOWN("K_1")>>, <<KEYDOWN("K_w"), KEYDOWN("K_ESCAPE")>> }

\* clock.tick(FPS), in ms: a slow frame of one second, for the runs of Spec.
DtFrame == 1000
Dts == {DtFrame}

\* Line 414 and line 462, in ms.
minute_of(e) == e \div (60 * MS)
spawn_interval(minute) == Max(400, 1700 - minute * 120)

\* The number of mobs the while loop of lines 464-466 appends in a frame.
SpawnsDue(acc, interval) == acc \div interval

\* The most mobs the modelled mob list holds, and the most frames of a run.
MaxMobs == 3
MaxFrames == 4

\* Line 437: the simulation block runs when state == 'playing'.
is_playing_OrLevelup(st) == st \in {"playing", "levelup"}

is_playing(st) == st = "playing"

\* Lines 411-437: while running; dt and elapsed; the event loop; the dispatch on
\* state.  When state is not 'playing' the frame is over (drawing changes nothing).
FrameStart ==
    /\ pc = "frame"
    /\ running
    /\ frames < MaxFrames
    /\ \E d \in tick_ms, evs \in EventLists :
        LET w == handle_events([state |-> state, running |-> running, player |-> player], evs)
            e == elapsed + d
        IN  /\ is_playing(w.state) =>
                Len(mobs) + SpawnsDue(spawn_acc + d, spawn_interval(minute_of(e))) <= MaxMobs
            /\ dt' = d
            /\ elapsed' = e
            /\ events' = evs
            /\ state' = w.state
            /\ running' = w.running
            /\ player' = w.player
            /\ pc' = IF is_playing(w.state) THEN "move" ELSE "frame"
    /\ frames' = frames + 1
    /\ prev_state' = state
    /\ UNCHANGED <<mobs, projectile_list, lava_pools, obstacles, spawn_acc, removed_count>>
    /\ UNCHANGED <<smVars, goVars, since_attack, tick_ms, held_keys>>

\* Lines 411 and 779-780: the loop ends when running is False.
Exit ==
    /\ pc = "frame"
    /\ ~running
    /\ pc' = "exit"
    /\ UNCHANGED <<state, running, player, mobs, projectile_list, lava_pools, obstacles,
                   elapsed, spawn_acc, dt, events, frames, prev_state, removed_count>>
    /\ UNCHANGED <<smVars, goVars, since_attack, tick_ms, held_keys>>

-----------------------------------------------------------------------------
(* main: the playing frame, input and spawning (lines 438-466) *)

\* Lines 449-452 (and 486-488, 520-522, 569-572, 601-604): a circle meets one of
\* the obstacles.
HitsObstacle(cx, cy, r) ==
    \E i \in DOMAIN obstacles : circle_rect_collision(cx, cy, r, obstacles[i].rect)

\* pygame.key.get_pressed() as (dx, dy) of lines 440-441: no key, and left.
Directions == {<<0, 0>>, <<-1, 0>>}

\* Lines 442-455: the player's position after the input (dx, dy).
moved_player_NoClamp(p, dx, dy, dt_ms) ==
    IF dx = 0 /\ dy = 0 THEN p
    ELSE LET u == Unit(dx * 100, dy * 100)
             new_x == p.x + Step(u[1], p.speed, dt_ms)
             new_y == p.y + Step(u[2], p.speed, dt_ms)
         IN  IF HitsObstacle(new_x, new_y, PLAYER_RADIUS) THEN p
             ELSE [p EXCEPT !.x = new_x, !.y = new_y]

moved_player(p, dx, dy, dt_ms) ==
    IF dx = 0 /\ dy = 0 THEN p
    ELSE LET u == Unit(dx * 100, dy * 100)
             new_x == p.x + Step(u[1], p.speed, dt_ms)
             new_y == p.y + Step(u[2], p.speed, dt_ms)
         IN  IF HitsObstacle(new_x, new_y, PLAYER_RADIUS) THEN p
             ELSE [p EXCEPT !.x = clamp(new_x, 0, WORLD_W), !.y = clamp(new_y, 0, WORLD_H)]

\* Lines 438-463: input and movement, the camera (not modelled: it is only
\* drawn with), and spawn_acc += dt.
Move ==
    /\ pc = "move"
    /\ \E d \in held_keys : player' = moved_player(player, d[1], d[2], dt)
    /\ spawn_acc' = spawn_acc + dt
    /\ events' = <<>>
    /\ pc' = "spawn"
    /\ UNCHANGED <<state, running, mobs, projectile_list, lava_pools, obstacles, elapsed,
                   dt, frames, prev_state, removed_count>>
    /\ UNCHANGED <<smVars, goVars, since_attack, tick_ms, held_keys>>

\* The draws of spawn_mob in the modelled frames: <<x, y, roll>> with (x, y) a
\* sampled position (lines 145-150) and roll the mob's random terms.
MainSamples ==
    { <<1746, 900, <<"melee", -4, 8, 2200>> >>, <<1683, 900, <<"shooter", 6, 8, 800>> >> }

\* The same for a fallback (lines 157-158, 173-174): a uniform draw over the
\* world that lands 20 px to the right of the player.
MainFallbacks(player_x, player_y) ==
    { <<Min(player_x + 20, WORLD_W), player_y, <<"melee", -4, 8, 2200>> >>,
      <<Min(player_x + 20, WORLD_W), player_y, <<"lava", 6, -8, 800>> >> }

\* The Mobs that spawn_mob(minute, player_x, player_y, obstacles) can return:
\* a sample that passes both checks, or a fallback position.
spawn_mob(minute, player_x, player_y, obs_arg) ==
    { NewMob(minute, q[1], q[2], q[3]) :
        q \in {c \in MainSamples : ~TooNear(c[1], c[2], player_x, player_y)
                                   /\ ~InsideObs(c[1], c[2], obs_arg)}
              \cup MainFallbacks(player_x, player_y) }

\* Lines 464-466: one iteration of the while loop.
SpawnOne ==
    /\ pc = "spawn"
    /\ spawn_acc >= spawn_interval(minute_of(elapsed))
    /\ spawn_acc' = spawn_acc - spawn_interval(minute_of(elapsed))
    /\ \E mob \in spawn_mob(minute_of(elapsed), player.x, player.y, obstacles) :
        mobs' = Append(mobs, mob)
    /\ UNCHANGED <<pc, state, running, player, projectile_list, lava_pools, obstacles,
                   elapsed, dt, events, frames, prev_state, removed_count>>
    /\ UNCHANGED <<smVars, goVars, since_attack, tick_ms, held_keys>>

\* Line 464: the while loop ends.
SpawnDone ==
    /\ pc = "spawn"
    /\ spawn_acc < spawn_interval(minute_of(elapsed))
    /\ pc' = "mobs"
    /\ UNCHANGED <<state, running, player, mobs, projectile_list, lava_pools, obstacles,
                   elapsed, spawn_acc, dt, events, frames, prev_state, removed_count>>
    /\ UNCHANGED <<smVars, goVars, since_attack, tick_ms, held_keys>>

-----------------------------------------------------------------------------
(* main: the playing frame, the mob pass (lines 468-587) *)

\* cos and sin, in thousandths, of the steering angles: 0, +-30, +-60, +-100
\* degrees (line 492) and 0, +-25, +-50 degrees (lines 528, 542).
MeleeAngles ==
    << <<1000, 0>>, <<866, 500>>, <<866, -500>>, <<500, 866>>, <<500, -866>>,
       <<-174, 985>>, <<-174, -985>> >>
ApproachAngles ==
    << <<1000, 0>>, <<906, 423>>, <<906, -423>>, <<643, 766>>, <<643, -766>> >>
BackUpAngles == << <<1000, 0>>, <<906, 423>>, <<906, -423>> >>

\* Lines 493-502, 529-538, 542-551: the mob after the first unblocked try among
\* `angles` from index i on (sign = -1 backs up); unmoved when every try is
\* blocked.
RECURSIVE steer(_, _, _, _, _, _)
steer(mob, u, angles, i, sign, dt_ms) ==
    IF i > Len(angles) THEN mob
    ELSE LET t == Turn(u, angles[i][1], angles[i][2])
             nx == mob.x + Step(sign * t[1], mob.speed, dt_ms)
             ny == mob.y + Step(sign * t[2], mob.speed, dt_ms)
         IN  IF HitsObstacle(nx, ny, MOB_RADIUS)
             THEN steer(mob, u, angles, i + 1, sign, dt_ms)
             ELSE [mob EXCEPT !.x = clamp(nx, 0, WORLD_W), !.y = clamp(ny, 0, WORLD_H)]

\* The random draws of one mob's update: the lava mob's heading (cos, sin in
\* thousandths; line 564), the shooter's new cooldown (line 560), the pool's
\* duration (line 578) and the lava mob's new cooldown (line 579), in ms.
MobDraws ==
    { [ang |-> <<1000, 0>>, shoot_cd |-> 1200, pool |-> 5000, lava_cd |-> 4000],
      [ang |-> <<0, -1000>>, shoot_cd |-> 2000, pool |-> 8000, lava_cd |-> 7000] }

\* Lines 470-579: the body of the loop for one mob, before the removal.  The
\* result holds the mob, the damage to the player (in thousandths of a hit
\* point), and the projectiles and lava pools appended.
update_mob(mob0, p, minute, dt_ms, draw) ==
    LET mob == [mob0 EXCEPT !.cooldown = Max(0, @ - dt_ms)]
        u == Unit(p.x - mob.x, p.y - mob.y)
        d2 == distance_sq(p.x, p.y, mob.x, mob.y)
        none == [mob |-> mob, dmg |-> 0, projs |-> <<>>, lavas |-> <<>>]
    IN  IF mob.type = "melee" THEN
            LET m1 == steer(mob, u, MeleeAngles, 1, 1, dt_ms)
            IN  [none EXCEPT !.mob = m1,
                             !.dmg = IF distance_le(m1.x, m1.y, p.x, p.y,
                                                    MOB_RADIUS + PLAYER_RADIUS)
                                     THEN 12 * dt_ms ELSE 0]
        ELSE IF mob.type = "shooter" THEN
            LET desired == 380
                m1 == IF d2 > desired * desired
                      THEN steer(mob, u, ApproachAngles, 1, 1, dt_ms)
                      ELSE IF d2 < (desired - 60) * (desired - 60)
                      THEN steer(mob, u, BackUpAngles, 1, -1, dt_ms)
                      ELSE mob
                ps == 420
            IN  IF m1.cooldown <= 0 /\ d2 <= 700 * 700
                THEN [none EXCEPT
                        !.mob = [m1 EXCEPT !.cooldown = draw.shoot_cd],
                        !.projs = <<Projectile(m1.x, m1.y, Round(u[1] * ps, MS),
                                               Round(u[2] * ps, MS), ps,
                                               18 + minute * 2, "mob")>>]
                ELSE [none EXCEPT !.mob = m1]
        ELSE
            LET nx == mob.x + Round(draw.ang[1] * mob.speed * dt_ms, 4 * MS * MS)
                ny == mob.y + Round(draw.ang[2] * mob.speed * dt_ms, 4 * MS * MS)
                m1 == IF HitsObstacle(nx, ny, MOB_RADIUS) THEN mob
                      ELSE [mob EXCEPT !.x = clamp(nx, 0, WORLD_W),
                                       !.y = clamp(ny, 0, WORLD_H)]
            IN  IF m1.cooldown <= 0
                THEN [none EXCEPT
                        !.mob = [m1 EXCEPT !.cooldown = draw.lava_cd],
                        !.lavas = <<LavaPool(m1.x, m1.y, LAVA_RADIUS, draw.pool)>>]
                ELSE [none EXCEPT !.mob = m1]

\* Lines 581-587: the mob leaves the list when its hp is <= 0.
is_dead_NegativeOnly(mob) == mob.hp < 0

is_dead(mob) == mob.hp <= 0

\* Folds over the per-mob results r[1..n], in list order.
RECURSIVE Survivors(_, _)
Survivors(r, i) ==
    IF i > Len(r) THEN <<>>
    ELSE (IF is_dead(r[i].mob) THEN <<>> ELSE <<r[i].mob>>) \o Survivors(r, i + 1)

RECURSIVE DeadCount(_, _)
DeadCount(r, i) ==
    IF i > Len(r) THEN 0
    ELSE (IF is_dead(r[i].mob) THEN 1 ELSE 0) + DeadCount(r, i + 1)

RECURSIVE TotalDmg(_, _)
TotalDmg(r, i) == IF i > Len(r) THEN 0 ELSE r[i].dmg + TotalDmg(r, i + 1)

RECURSIVE AllProjs(_, _)
AllProjs(r, i) == IF i > Len(r) THEN <<>> ELSE r[i].projs \o AllProjs(r, i + 1)

RECURSIVE AllLavas(_, _)
AllLavas(r, i) == IF i > Len(r) THEN <<>> ELSE r[i].lavas \o AllLavas(r, i + 1)

\* Lines 469-587: "for mob in mobs[:]".  A mob's update reads only the mob and
\* the player's position, so the pass is the per-mob results put together;
\* mobs.remove(mob) removes the first element equal to mob, which is mob itself
\* or an equal, equally dead one.
UpdateMobs ==
    /\ pc = "mobs"
    /\ \E draws \in [1..Len(mobs) -> MobDraws] :
        LET r == [i \in 1..Len(mobs) |->
                    update_mob(mobs[i], player, minute_of(elapsed), dt, draws[i])]
        IN  /\ mobs' = Survivors(r, 1)
            /\ player' = [player EXCEPT !.hp = @ - TotalDmg(r, 1),
                                        !.xp = @ + DeadCount(r, 1)]
            /\ removed_count' = removed_count + (Len(mobs) - Len(Survivors(r, 1)))
            /\ projectile_list' = projectile_list \o AllProjs(r, 1)
            /\ lava_pools' = lava_pools \o AllLavas(r, 1)
    /\ pc' = "projectiles"
    /\ UNCHANGED <<state, running, obstacles, elapsed, spawn_acc, dt, events, frames,
                   prev_state>>
    /\ UNCHANGED <<smVars, goVars, since_attack, tick_ms, held_keys>>

-----------------------------------------------------------------------------
(* main: the playing frame, projectiles and lava pools (lines 589-633) *)

\* Lines 617-622: the first mob, from index i on, within MOB_RADIUS + 6 of the
\* projectile loses p.dmg hit points; 0 when there is none.
RECURSIVE first_hit(_, _, _)
first_hit(mob_list, p, i) ==
    IF i > Len(mob_list) THEN 0
    ELSE IF distance_le(p.x, p.y, mob_list[i].x, mob_list[i].y, MOB_RADIUS + 6) THEN i
    ELSE first_hit(mob_list, p, i + 1)

\* Lines 591-622: the body of the loop for one projectile, on
\* w = [mobs, hp, kept]: the mob list, the player's hp and the projectiles that
\* stay in the list.
update_projectile_KeepOnHit(w, p0, px, py, dt_ms) ==
    LET p == [p0 EXCEPT !.ttl = @ - dt_ms,
                        !.x = @ + Round(p0.vx * dt_ms, MS),
                        !.y = @ + Round(p0.vy * dt_ms, MS)]
        hit == first_hit(w.mobs, p, 1)
    IN  IF p.ttl <= 0 \/ ~(0 <= p.x /\ p.x <= WORLD_W /\ 0 <= p.y /\ p.y <= WORLD_H)
        THEN w
        ELSE IF HitsObstacle(p.x, p.y, 4)
        THEN w
        ELSE IF p.owner = "mob" /\ distance_le(p.x, p.y, px, py, PLAYER_RADIUS + 6)
        THEN [w EXCEPT !.hp = @ - p.dmg * MS]
        ELSE IF p.owner = "player" /\ hit > 0
        THEN [w EXCEPT !.mobs[hit].hp = @ - p.dmg * MS, !.kept = Append(@, p)]
        ELSE [w EXCEPT !.kept = Append(@, p)]

update_projectile(w, p0, px, py, dt_ms) ==
    LET p == [p0 EXCEPT !.ttl = @ - dt_ms,
                        !.x = @ + Round(p0.vx * dt_ms, MS),
                        !.y = @ + Round(p0.vy * dt_ms, MS)]
        hit == first_hit(w.mobs, p, 1)
    IN  IF p.ttl <= 0 \/ ~(0 <= p.x /\ p.x <= WORLD_W /\ 0 <= p.y /\ p.y <= WORLD_H)
        THEN w
        ELSE IF HitsObstacle(p.x, p.y, 4)
        THEN w
        ELSE IF p.owner = "mob" /\ distance_le(p.x, p.y, px, py, PLAYER_RADIUS + 6)
        THEN [w EXCEPT !.hp = @ - p.dmg * MS]
        ELSE IF p.owner = "player" /\ hit > 0
        THEN [w EXCEPT !.mobs[hit].hp = @ - p.dmg * MS]
        ELSE [w EXCEPT !.kept = Append(@, p)]

RECURSIVE update_projectiles(_, _, _, _, _, _)
update_projectiles(w, plist, i, px, py, dt_ms) ==
    IF i > Len(plist) THEN w
    ELSE update_projectiles(update_projectile(w, plist[i], px, py, dt_ms),
                            plist, i + 1, px, py, dt_ms)

\* Lines 589-622: "for p in projectile_list[:]".
UpdateProjectiles ==
    /\ pc = "projectiles"
    /\ LET w == update_projectiles([mobs |-> mobs, hp |-> player.hp, kept |-> <<>>],
                                   projectile_list, 1, player.x, player.y, dt)
       IN  /\ mobs' = w.mobs
           /\ player' = [player EXCEPT !.hp = w.hp]
           /\ projectile_list' = w.kept
    /\ pc' = "lava"
    /\ UNCHANGED <<state, running, lava_pools, obstacles, elapsed, spawn_acc, dt, events,
                   frames, prev_state, removed_count>>
    /\ UNCHANGED <<smVars, goVars, since_attack, tick_ms, held_keys>>

\* Lines 625-633: the body of the loop for one lava pool, on w = [hp, kept].
update_lava(w, lava0, px, py, dt_ms) ==
    LET lava == [lava0 EXCEPT !.duration = @ - dt_ms, !.tick = @ + dt_ms]
    IN  IF lava.duration <= 0 THEN w
        ELSE [w EXCEPT !.kept = Append(@, lava),
                       !.hp = IF distance_le(px, py, lava.x, lava.y, lava.radius)
                              THEN @ - 28 * dt_ms ELSE @]

RECURSIVE update_lavas(_, _, _, _, _, _)
update_lavas(w, llist, i, px, py, dt_ms) ==
    IF i > Len(llist) THEN w
    ELSE update_lavas(update_lava(w, llist[i], px, py, dt_ms), llist, i + 1, px, py, dt_ms)

\* Lines 624-633: "for lava in lava_pools[:]".
UpdateLava ==
    /\ pc = "lava"
    /\ LET w == update_lavas([hp |-> player.hp, kept |-> <<>>], lava_pools, 1,
                             player.x, player.y, dt)
       IN  /\ player' = [player EXCEPT !.hp = w.hp]
           /\ lava_pools' = w.kept
    /\ pc' = "attack"
    /\ UNCHANGED <<state, running, mobs, projectile_list, obstacles, elapsed, spawn_acc, dt,
                   events, frames, prev_state, removed_count>>
    /\ UNCHANGED <<smVars, goVars, since_attack, tick_ms, held_keys>>

-----------------------------------------------------------------------------
(* main: the playing frame, auto-attack and the end checks (lines 635-667) *)

\* Line 640: min(mobs, key=distance to the player): the index of the first mob
\* at the least distance.
nearest_index(mob_list, px, py) ==
    CHOOSE i \in DOMAIN mob_list :
        \A j \in DOMAIN mob_list :
            LET di == distance_sq(px, py, mob_list[i].x, mob_list[i].y)
                dj == distance_sq(px, py, mob_list[j].x, mob_list[j].y)
            IN  di < dj \/ (di = dj /\ i <= j)

\* Lines 653-655: every mob within attack_range + MOB_RADIUS loses proj_dmg.
melee_hit_NearestOnly(mob_list, p) ==
    [i \in DOMAIN mob_list |->
        IF i = nearest_index(mob_list, p.x, p.y)
        THEN [mob_list[i] EXCEPT !.hp = @ - p.proj_dmg * MS]
        ELSE mob_list[i]]

melee_hit(mob_list, p) ==
    [i \in DOMAIN mob_list |->
        IF distance_le(p.x, p.y, mob_list[i].x, mob_list[i].y, p.attack_range + MOB_RADIUS)
        THEN [mob_list[i] EXCEPT !.hp = @ - p.proj_dmg * MS]
        ELSE mob_list[i]]

\* Lines 650 and 656: the timer after an attack.
reset_timer_Zero(p) == [p EXCEPT !.attack_timer = 0]

reset_timer(p) == [p EXCEPT !.attack_timer = p.attack_cooldown]

\* Lines 635-656.
AutoAttack ==
    /\ pc = "attack"
    /\ LET timer == player.attack_timer - dt
           n == nearest_index(mobs, player.x, player.y)
           in_range == /\ timer <= 0
                       /\ mobs # <<>>
                       /\ distance_le(player.x, player.y, mobs[n].x, mobs[n].y,
                                      player.attack_range)
           u == Unit(mobs[n].x - player.x, mobs[n].y - player.y)
       IN  IF ~in_range
           THEN /\ player' = [player EXCEPT !.attack_timer = timer]
                /\ since_attack' = IF since_attack < 0 THEN -1 ELSE since_attack + dt
                /\ UNCHANGED <<mobs, projectile_list>>
           ELSE /\ player' = reset_timer(player)
                /\ since_attack' = 0
                /\ IF player.attack_type = "projectile"
                   THEN /\ projectile_list' =
                            Append(projectile_list,
                                   Projectile(player.x, player.y,
                                              Round(u[1] * player.proj_speed, MS),
                                              Round(u[2] * player.proj_speed, MS),
                                              player.proj_speed, player.proj_dmg, "player"))
                        /\ UNCHANGED mobs
                   ELSE /\ mobs' = melee_hit(mobs, player)
                        /\ UNCHANGED projectile_list
    /\ pc' = "checks"
    /\ UNCHANGED <<state, running, lava_pools, obstacles, elapsed, spawn_acc, dt, events,
                   frames, prev_state, removed_count>>
    /\ UNCHANGED <<smVars, goVars, tick_ms, held_keys>>

\* Lines 658-661: the level-up check, on w = [state, player].
level_up_check(w) ==
    IF w.player.xp >= w.player.level * 5
    THEN [w EXCEPT !.player.level = @ + 1, !.state = "levelup"]
    ELSE w

\* Lines 663-667: the win and death checks.
win_check(w, e) ==
    IF e >= LEVEL_DURATION_SECONDS * MS THEN [w EXCEPT !.state = "win"] ELSE w

dead_check_Elif(w) ==
    IF w.player.hp <= 0 /\ w.state = "playing" THEN [w EXCEPT !.state = "dead"] ELSE w

dead_check(w) ==
    IF w.player.hp <= 0 THEN [w EXCEPT !.state = "dead"] ELSE w

\* Lines 658-667; the frame ends (drawing changes nothing).
EndChecks ==
    /\ pc = "checks"
    /\ LET w == dead_check(win_check(level_up_check([state |-> state, player |-> player]),
                                     elapsed))
       IN  /\ state' = w.state
           /\ player' = w.player
    /\ pc' = "frame"
    /\ UNCHANGED <<running, mobs, projectile_list, lava_pools, obstacles, elapsed,
                   spawn_acc, dt, events, frames, prev_state, removed_count>>
    /\ UNCHANGED <<smVars, goVars, since_attack, tick_ms, held_keys>>

Init ==
    /\ IdleSpawn /\ IdleGen
    /\ InitFresh \/ InitResumed
    /\ tick_ms = Dts /\ held_keys = Directions

Next ==
    \/ ChampionMenu
    \/ FrameStart
    \/ Exit
    \/ Move
    \/ SpawnOne
    \/ SpawnDone
    \/ UpdateMobs
    \/ UpdateProjectiles
    \/ UpdateLava
    \/ AutoAttack
    \/ EndChecks

Spec == Init /\ [][Next]_vars

-----------------------------------------------------------------------------
(* main: the projectile pass on given lists (lines 589-622) *)

\* Projectiles in flight at the start of a projectile pass with dt = DtFrame;
\* the player is at the world centre.  In order: a mob's shot that reaches the
\* player; the same shot in its last second of ttl; a player's shot that
\* reaches the mobs east of the player; a player's shot that leaves the world;
\* a mob's shot that ends in the rock of MainObstacles; a mob's shot in the
\* open.
ProjSamples ==
    { Projectile(1620, 900, -420, 0, 420, 18, "mob"),
      [Projectile(1620, 900, -420, 0, 420, 18, "mob") EXCEPT !.ttl = DtFrame],
      [Projectile(1080, 900, 420, 0, 420, 28, "player") EXCEPT !.ttl = 5 * MS],
      [Projectile(2200, 900, 420, 0, 420, 28, "player") EXCEPT !.ttl = 3 * MS],
      [Projectile(1980, 1260, -420, 0, 420, 18, "mob") EXCEPT !.ttl = 5 * MS],
      Projectile(300, 300, 420, 0, 420, 18, "mob") }

\* The mob lists of those passes: none, one shooter 300 px east of the player,
\* and a second one 10 px behind the first.
ProjMobLists ==
    { <<>>,
      <<Mob(1500, 900, 28 * MS, 63, "shooter", 800)>>,
      <<Mob(1500, 900, 28 * MS, 63, "shooter", 800),
        Mob(1510, 900, 43 * MS, 71, "shooter", 1500)>> }

\* The most projectiles in the list of a modelled pass.
MaxProjectiles == 2

ProjLists ==
    UNION {[1..n -> ProjSamples] : n \in 0..MaxProjectiles}

\* A playing frame of a mage at the point where the projectile pass starts.
InitProj ==
    /\ IdleSpawn /\ IdleGen
    /\ pc = "projectiles"
    /\ state = "playing"
    /\ running = TRUE
    /\ player = [choose_champion(Player(WORLD_W \div 2, WORLD_H \div 2), "mage")
                   EXCEPT !.attack_timer = CHAMPIONS["mage"].cooldown]
    /\ mobs \in ProjMobLists
    /\ projectile_list \in ProjLists
    /\ lava_pools = <<>>
    /\ obstacles = MainObstacles
    /\ elapsed = 30 * MS /\ spawn_acc = 0 /\ dt = DtFrame /\ events = <<>>
    /\ frames = 1 /\ prev_state = "playing" /\ removed_count = 0
    /\ since_attack = 0 /\ tick_ms = Dts /\ held_keys = Directions

NextProj == UpdateProjectiles \/ UpdateLava \/ AutoAttack \/ EndChecks

SpecProj == InitProj /\ [][NextProj]_vars

\* The projectile after lines 590-592 of a pass.
Flown(q) ==
    [q EXCEPT !.ttl = @ - dt, !.x = @ + Round(q.vx * dt, MS), !.y = @ + Round(q.vy * dt, MS)]

\* The flown projectile is spent, out of the world or in an obstacle.
Gone(q) ==
    \/ q.ttl <= 0
    \/ q.x < 0 \/ q.x > WORLD_W \/ q.y < 0 \/ q.y > WORLD_H
    \/ \E i \in DOMAIN obstacles : circle_rect_collision(q.x, q.y, 4, obstacles[i].rect)

InReach(q, e, r) == (q.x - e.x) * (q.x - e.x) + (q.y - e.y) * (q.y - e.y) <= r * r

\* The index of the entity the flown projectile damages: 0 for the player, k
\* for mobs[k], -1 for none.
Victim(q) ==
    IF Gone(q) THEN -1
    ELSE IF q.owner = "mob"
    THEN (IF InReach(q, player, PLAYER_RADIUS + 6) THEN 0 ELSE -1)
    ELSE LET near == {k \in DOMAIN mobs : InReach(q, mobs[k], MOB_RADIUS + 6)}
         IN  IF near = {} THEN -1 ELSE CHOOSE k \in near : \A j \in near : k <= j

RECURSIVE DmgTo(_, _, _)
DmgTo(plist, i, v) ==
    IF i > Len(plist) THEN 0
    ELSE (IF Victim(Flown(plist[i])) = v THEN plist[i].dmg * MS ELSE 0)
         + DmgTo(plist, i + 1, v)

RECURSIVE StillFlying(_, _)
StillFlying(plist, i) ==
    IF i > Len(plist) THEN <<>>
    ELSE LET q == Flown(plist[i])
         IN  (IF Gone(q) \/ Victim(q) >= 0 THEN <<>> ELSE <<q>>) \o StillFlying(plist, i + 1)

\* C12: in a projectile pass every projectile damages at most one entity, the
\* player for a mob's projectile and the first mob in reach for the player's,
\* by its dmg, and leaves the list when it does; a projectile that is spent,
\* out of the world or in an obstacle leaves the list and damages nothing; the
\* other projectiles stay; nothing else changes.
C12_ProjectileOnce ==
    [][pc = "projectiles" =>
        /\ projectile_list' = StillFlying(projectile_list, 1)
        /\ player' = [player EXCEPT !.hp = @ - DmgTo(projectile_list, 1, 0)]
        /\ mobs' = [k \in DOMAIN mobs |->
                      [mobs[k] EXCEPT !.hp = @ - DmgTo(projectile_list, 1, k)]]]_vars

\* A pass with two projectiles ended: the mob's shot took 18 hp of the
\* player's 100, the player's shot took 28 hp of the first of two mobs in its
\* reach and none of the second, and both shots left the list.
C12_Witness ==
    /\ pc = "lava"
    /\ player.hp = (100 - 18) * MS
    /\ Len(mobs) = 2 /\ mobs[1].hp = 0 /\ mobs[2].hp = 43 * MS
    /\ projectile_list = <<>>


-----------------------------------------------------------------------------
(* main: frames shorter than the attack cooldowns *)

\* clock.tick(FPS) at 60 frames per second, and at 5 and 2.5.
DtSixty == 16
DtShort == 200
DtLong == 400

\* An obstacle 10 px from the left edge of the world, as lines 222-224 place
\* them (x = clamp(cx + randint, 0, WORLD_W - w)).
EdgeObstacles == <<Obstacle(Rect(10, 860, 40, 80), "tree")>>

\* A mage walks down and left along the left edge of the world, just above an
\* obstacle, at 60 frames per second; no mob is near.
InitEdgeWalk ==
    /\ player = choose_champion(Player(0, 843), "mage")
    /\ mobs = <<>>
    /\ obstacles = EdgeObstacles
    /\ elapsed = 20 * MS /\ spawn_acc = 0
    /\ since_attack = -1
    /\ tick_ms = {DtSixty} /\ held_keys = {<<0, 0>>, <<-1, 1>>}

\* A knight stands at the world centre after 5 min, 0.2 s after its last
\* swing, with four kills; one melee mob is 40 px to its east, another, which
\* two swings have hit, 62 px to its west; the next mob is due.
InitSwing ==
    /\ player = [choose_champion(Player(WORLD_W \div 2, WORLD_H \div 2), "knight")
                   EXCEPT !.attack_timer = 300, !.xp = 4]
    /\ mobs = <<Mob(1240, 900, 103 * MS, 95, "melee", 0),
                Mob(1138, 900, 31 * MS, 87, "melee", 0)>>
    /\ obstacles = MainObstacles
    /\ elapsed = 300 * MS /\ spawn_acc = 900
    /\ since_attack = 200
    /\ tick_ms = {DtShort, DtLong} /\ held_keys = {<<0, 0>>}

InitFine ==
    /\ IdleSpawn /\ IdleGen
    /\ pc = "frame" /\ state = "playing" /\ running = TRUE
    /\ projectile_list = <<>> /\ lava_pools = <<>>
    /\ dt = 0 /\ events = <<>>
    /\ frames = 0 /\ prev_state = "playing"
    /\ InitEdgeWalk \/ InitSwing
    /\ removed_count = player.xp

NextFine ==
    \/ FrameStart
    \/ Exit
    \/ Move
    \/ SpawnOne
    \/ SpawnDone
    \/ UpdateMobs
    \/ UpdateProjectiles
    \/ UpdateLava
    \/ AutoAttack
    \/ EndChecks

SpecFine == InitFine /\ [][NextFine]_vars

-----------------------------------------------------------------------------
(* main: properties of the game loop *)

\* A frame boundary of the game loop: the top of "while running", which is the
\* end of the frame before it.
FrameEnd == pc = "frame"

LevelOver == elapsed >= LEVEL_DURATION_SECONDS * MS

HasBonusKey(evs) ==
    \E i \in DOMAIN evs : evs[i].type = "KEYDOWN" /\ evs[i].key \in {"K_1", "K_2", "K_3"}

FirstBonusKey(evs) ==
    evs[CHOOSE i \in DOMAIN evs :
            /\ evs[i].type = "KEYDOWN" /\ evs[i].key \in {"K_1", "K_2", "K_3"}
            /\ \A j \in 1..(i - 1) :
                ~(evs[j].type = "KEYDOWN" /\ evs[j].key \in {"K_1", "K_2", "K_3"})].key

\* The simulation is at rest over a step: the state, the player, the three
\* lists and the spawn accumulator keep their values and no phase of the
\* playing block is entered.
Frozen ==
    /\ state' = state
    /\ player' = player
    /\ mobs' = mobs
    /\ projectile_list' = projectile_list
    /\ lava_pools' = lava_pools
    /\ spawn_acc' = spawn_acc
    /\ pc' \in {"frame", "exit"}

\* C2: once the state is 'win' or 'dead' at the end of a frame, every later
\* frame, whatever its keys, leaves the state, the player, the mob list, the
\* projectile list, the lava-pool list and the spawn accumulator unchanged.
C2_TerminalFrozen ==
    [][(FrameEnd /\ state \in {"win", "dead"}) => Frozen]_vars

\* A frame with two bonus keys was played after the game was won.
C2_Witness ==
    /\ FrameEnd /\ running
    /\ prev_state = "win" /\ state = "win"
    /\ events = <<KEYDOWN("K_3"), KEYDOWN("K_1")>>

\* C3: at the end of every frame with elapsed >= LEVEL_DURATION_SECONDS the
\* state is 'dead' when player.hp <= 0 and 'win' otherwise.
C3_WinAtDuration ==
    (FrameEnd /\ frames > 0 /\ LevelOver) =>
        state = (IF player.hp <= 0 THEN "dead" ELSE "win")

\* C4: at the end of every frame after champion selection, the state is 'dead'
\* if and only if player.hp <= 0.
C4_DeadIffNoHp ==
    FrameEnd => (state = "dead" <=> player.hp <= 0)

\* A frame ended in 'dead' although the level-up check of the same frame
\* raised the level (the level is raised once in a run of the model, and any
\* later playing frame has elapsed >= LEVEL_DURATION_SECONDS).
C4_Witness ==
    /\ FrameEnd /\ state = "dead" /\ player.hp <= 0
    /\ player.level = 2 /\ ~LevelOver

\* C5: while the state is 'levelup', a frame without a bonus key leaves the
\* state 'levelup' and the player, the mobs, the projectiles, the lava pools
\* and the spawn accumulator unchanged, and runs no phase of the simulation.
C5_LevelupPaused ==
    [][(FrameEnd /\ state = "levelup" /\ ~HasBonusKey(events')) => Frozen]_vars

\* A frame went by in 'levelup' without a bonus key, with a mob in the list.
C5_Witness ==
    /\ FrameEnd /\ running
    /\ prev_state = "levelup" /\ state = "levelup"
    /\ events = <<>> /\ mobs # <<>>

\* C6: player.level changes only in the level-up check, by exactly 1 and
\* exactly when xp >= level * 5, and the state becomes 'levelup' unless win or
\* dead overrides it; a frame in 'levelup' with bonus keys applies the bonus of
\* the first of them and nothing else, returns to 'playing' and leaves the
\* level unchanged.
C6_LevelAndBonus ==
    /\ [][player'.level # player.level =>
            /\ pc = "checks"
            /\ player.xp >= player.level * 5
            /\ player'.level = player.level + 1]_vars
    /\ [][(pc = "checks" /\ player.xp >= player.level * 5) =>
            /\ player' = [player EXCEPT !.level = @ + 1]
            /\ state' = (IF player.hp <= 0 THEN "dead"
                         ELSE IF LevelOver THEN "win" ELSE "levelup")]_vars
    /\ [][(FrameEnd /\ state = "levelup" /\ HasBonusKey(events')) =>
            /\ state' = "playing"
            /\ LET key == FirstBonusKey(events')
               IN  player' =
                     IF key = "K_1"
                     THEN [player EXCEPT !.proj_dmg = @ + 8 + player.level * 2,
                                         !.attack_range = @ + 10]
                     ELSE IF key = "K_2"
                     THEN [player EXCEPT !.speed = @ + 40]
                     ELSE [player EXCEPT !.hp = @ + 40 * MS]]_vars
    /\ [][(state = "levelup" /\ state' # "levelup") =>
            (FrameEnd /\ HasBonusKey(events') /\ state' = "playing")]_vars

\* A level-up was resolved in a frame with two bonus keys, K_3 then K_1: the
\* playing block of that frame runs at level 2 with the K_3 bonus alone.
C6_Witness ==
    /\ pc = "move" /\ state = "playing" /\ prev_state = "levelup"
    /\ events = <<KEYDOWN("K_3"), KEYDOWN("K_1")>>
    /\ player.level = 2 /\ player.xp = 5

\* C7: a mob pass removes exactly the mobs whose hp is <= 0 and adds one xp
\* for each; no mob with hp <= 0 is left after the pass; nothing else removes a
\* mob or changes xp; hence xp equals the number of mobs removed so far.
C7_DeadMobsRemoved ==
    /\ [][pc = "mobs" =>
            LET dead == {i \in DOMAIN mobs : mobs[i].hp <= 0}
            IN  /\ Len(mobs') = Len(mobs) - Cardinality(dead)
                /\ player'.xp = player.xp + Cardinality(dead)
                /\ \A j \in DOMAIN mobs' : mobs'[j].hp > 0]_vars
    /\ [][pc # "mobs" => (player'.xp = player.xp /\ Len(mobs') >= Len(mobs))]_vars
    /\ [](player.xp = removed_count)

\* A mob pass removed a dead mob and kept a live one.
C7_Witness ==
    /\ pc = "projectiles"
    /\ removed_count = 5 /\ player.xp = 5
    /\ Len(mobs) = 1

\* C10: at the end of every frame the player, every mob, every projectile and
\* every lava pool is inside the world: 0 <= x <= WORLD_W and 0 <= y <= WORLD_H.
InWorld(e) == 0 <= e.x /\ e.x <= WORLD_W /\ 0 <= e.y /\ e.y <= WORLD_H

C10_InWorld ==
    FrameEnd =>
        /\ InWorld(player)
        /\ \A i \in DOMAIN mobs : InWorld(mobs[i])
        /\ \A i \in DOMAIN projectile_list : InWorld(projectile_list[i])
        /\ \A i \in DOMAIN lava_pools : InWorld(lava_pools[i])

\* The player walked left into the edge of the world (the step would end at
\* x < 0) in a frame that ended with a mob in the list.
C10_Witness ==
    /\ FrameEnd /\ frames > 0
    /\ player.x = 0 /\ mobs # <<>>

\* The mob is alive and within r of the player's centre.
LiveInRange(mob, r) ==
    /\ mob.hp > 0
    /\ (mob.x - player.x) * (mob.x - player.x) + (mob.y - player.y) * (mob.y - player.y) <= r * r

WithinRange(mob, r) ==
    (mob.x - player.x) * (mob.x - player.x) + (mob.y - player.y) * (mob.y - player.y) <= r * r

\* C14: for a melee champion, the attack phase of a playing frame whose timer,
\* after its decrement, is <= 0 with a mob within attack_range takes proj_dmg
\* from every mob within attack_range and resets the timer to attack_cooldown;
\* otherwise it changes no mob and only decrements the timer; no other phase
\* of such a champion's frame changes a mob's hp.
C14_MeleeSwing ==
    /\ [][(pc = "attack" /\ player.attack_type = "melee") =>
            LET timer == player.attack_timer - dt
                any == \E k \in DOMAIN mobs : WithinRange(mobs[k], player.attack_range)
            IN  /\ DOMAIN mobs' = DOMAIN mobs
                /\ IF timer <= 0 /\ any
                   THEN /\ \A k \in DOMAIN mobs :
                             WithinRange(mobs[k], player.attack_range) =>
                                 mobs'[k].hp = mobs[k].hp - player.proj_dmg * MS
                        /\ player'.attack_timer = player.attack_cooldown
                   ELSE /\ mobs' = mobs
                        /\ player'.attack_timer = timer]_vars
    /\ [][(pc = "projectiles" /\ player.attack_type = "melee") => mobs' = mobs]_vars

\* One swing of the knight hit both mobs: the first has 103 - 36 hp left, the
\* second 31 - 36.
C14_Witness ==
    /\ pc = "checks" /\ player.attack_type = "melee"
    /\ player.attack_timer = player.attack_cooldown
    /\ Len(mobs) >= 2
    /\ mobs[1].hp = (103 - 36) * MS /\ mobs[2].hp = (31 - 36) * MS

\* C15: the player's collision circle intersects no obstacle rectangle.
C15_PlayerClearOfObstacles ==
    pc \in {"frame", "move", "spawn", "mobs", "projectiles", "lava", "attack", "checks"} =>
        \A i \in DOMAIN obstacles :
            LET r == obstacles[i].rect
                nx == IF player.x < r.x THEN r.x
                      ELSE IF player.x > r.x + r.w THEN r.x + r.w ELSE player.x
                ny == IF player.y < r.y THEN r.y
                      ELSE IF player.y > r.y + r.h THEN r.y + r.h ELSE player.y
            IN  (player.x - nx) * (player.x - nx) + (player.y - ny) * (player.y - ny)
                    >= PLAYER_RADIUS * PLAYER_RADIUS

\* C16: a mob whose hp is <= 0 has no effect.  In a mob pass the player loses
\* at most the contact damage of the live melee mobs, and at most one
\* projectile per live shooter and one lava pool per live lava mob are added;
\* a projectile pass leaves the hp of a dead mob as it is; the auto-attack
\* fires only with a live mob within attack_range.
C16_DeadMobsInert ==
    /\ [][pc = "mobs" =>
            LET live(t) == Cardinality({k \in DOMAIN mobs : mobs[k].hp > 0 /\ mobs[k].type = t})
            IN  /\ player.hp - player'.hp <= 12 * dt * live("melee")
                /\ Len(projectile_list') - Len(projectile_list) <= live("shooter")
                /\ Len(lava_pools') - Len(lava_pools) <= live("lava")]_vars
    /\ [][pc = "projectiles" =>
            \A k \in DOMAIN mobs : mobs[k].hp <= 0 => mobs'[k].hp = mobs[k].hp]_vars
    /\ [][(pc = "attack" /\ since_attack' = 0) =>
            \E k \in DOMAIN mobs : LiveInRange(mobs[k], player.attack_range)]_vars

\* C17: an auto-attack that follows another comes after at least
\* attack_cooldown of playing time (the dt of the playing frames since, its own
\* frame included); attacks happen only in the attack phase, once in a frame,
\* and emit at most one projectile.
C17_CooldownBetweenAttacks ==
    /\ [][(pc = "attack" /\ since_attack' = 0 /\ since_attack >= 0) =>
            since_attack + dt >= player.attack_cooldown]_vars
    /\ [][since_attack' # since_attack => pc = "attack"]_vars
    /\ [][pc = "attack" =>
            Len(projectile_list') <= Len(projectile_list) + 1]_vars

\* The knight swung twice in the run, a level-up pause between the swings: the
\* first mob has lost 2 * 36 hp and the level is 2.
C17_Witness ==
    /\ pc = "checks" /\ since_attack = 0
    /\ player.level = 2
    /\ mobs # <<>> /\ mobs[1].hp = (103 - 72) * MS

====
